---- MODULE Spec2Model ----
(***************************************************************************)
(* Validation and control subsystem of vvpay.                              *)
(*                                                                         *)
(* The model follows services/validation_service.py (ValidationService),   *)
(* repositories/base.py, repositories/validation.py and utils/db_utils.py. *)
(* The four tables of the remote store are variables; every store call of  *)
(* validate_extraction / validate_all_pending is one atomic step, and two  *)
(* sessions of the application may interleave their steps.  Another        *)
(* process of the store may change a stored extraction, and the validation *)
(* history may be read (get_validation_history).  The upload path          *)
(* (app/components/upload.py, services/document_processor.py) is modelled  *)
(* as the three nodes of the processing graph followed by the insert.      *)
(***************************************************************************)
EXTENDS Integers, Sequences, FiniteSets, TLC

(* ---------------------------- bounds ----------------------------------- *)
NumProc   == 2      \* concurrent sessions calling the service
NumExt    == 2      \* rows of pdf_extractions
MaxAmount == 2      \* expected amounts of meta_table range over 0..MaxAmount
MaxValor  == 1      \* extraction amounts range over 1..MaxValor
MaxOps    == 2      \* operations started in a run
MaxFaults == 1      \* store calls that fail in a run
MaxValorPeriod == 2 \* amounts of the documents of one supplier range over 1..MaxValorPeriod
MaxLimit  == 2      \* the limit of a history read ranges over 0..MaxLimit

Retries == 3        \* attempts of retry_on_error (db_utils.py:20)

Procs == 1..NumProc
Exts  == 1..NumExt

(* ---------------------------- enums ------------------------------------ *)
\* models/service/enums.py
PaymentType == {"pc", "reembolso", "bonus"}
Status == {"pending", "processing", "extracted", "failed", "validated"}
ValidationStatus == {"valid", "invalid", "already_validated", "failed",
                     "pending", "processing", "amount_mismatch", "meta_not_found"}

\* Optional[...] values: None is the empty tuple, a present value v is <<v>>.
None == << >>
Some(v) == <<v>>

\* Python truthiness of an Optional[Decimal]: None and Decimal(0) are falsy.
Truthy(x) == x # None /\ x[1] # 0

\* tax ids: KnownCnpj has a row in meta_table, UnknownCnpj has none
KnownCnpj   == "12345678901234"
UnknownCnpj == "00000000000000"
Competences == {"08/2024"}

OptAmounts == {None} \cup {Some(v) : v \in 0..MaxAmount}

VARIABLES
    meta_table,          \* reference store: sequence of MetaTable rows
    pdf_extractions,     \* extraction store: id -> PDFExtraction row (ids 1..n)
    validation_results,  \* sequence of ValidationResult rows, insertion order
    validation_control,  \* sequence of ValidationControl rows, insertion order
    uniqueEnforced,      \* whether the remote table rejects a duplicate triple
    sessions,            \* the sessions of the application that are open
    faultBudget,         \* how many store calls may fail in this run
    doc,                 \* the upload being processed: graph state and position
    pc,                  \* per session: position in the running operation
    call,                \* per session: locals of validate_extraction
    batch,               \* per session: locals of validate_all_pending
    ret,                 \* per session: outcome of the last validate_extraction
    batchRet,            \* per session: outcome of the last validate_all_pending
    writes,              \* per session: store writes made by the current call
    ops,                 \* operations started so far
    faults,              \* store calls that have failed so far
    history,             \* outcome of the last get_validation_history
    lastCall,            \* per session: its last store call and the attempts made
    clock                \* the time: validate_extraction calls entered so far

vars == <<meta_table, pdf_extractions, validation_results, validation_control,
          uniqueEnforced, sessions, faultBudget, doc, pc, call, batch, ret, batchRet, writes, ops, faults,
          clock, history, lastCall>>

stores == <<meta_table, pdf_extractions, validation_results, validation_control,
            uniqueEnforced, sessions>>

(* ---------------------------- helpers ---------------------------------- *)
NoCall   == [active |-> FALSE]
NoBatch  == [active |-> FALSE]
NoRet    == [kind |-> "none"]
NoDoc    == [node |-> "none"]
NoWrites == [result |-> 0, control |-> 0, status |-> 0]

(* ---------------------------- store layer ------------------------------ *)
\* utils/db_utils.py get_records: the rows matching the equality filters, in
\* store order; an exception of the query is caught and [] is returned.
GetRecords(rows, filters, ok) ==
    IF ok
    THEN SelectSeq(rows, LAMBDA r : \A key \in DOMAIN filters : r[key] = filters[key])
    ELSE << >>

\* rows sorted on one column: query.order(field, desc); rows with equal
\* values keep their order
RECURSIVE SortRows(_, _, _)
SortRows(rows, field, desc) ==
    IF rows = << >>
    THEN << >>
    ELSE LET Before(i, j) == IF desc THEN rows[i][field] > rows[j][field]
                                     ELSE rows[i][field] < rows[j][field]
             k == CHOOSE i \in 1..Len(rows) :
                      \A j \in 1..Len(rows) :
                          j # i => (Before(i, j) \/ (~Before(j, i) /\ i < j))
         IN <<rows[k]>> \o SortRows(SubSeq(rows, 1, k - 1) \o SubSeq(rows, k + 1, Len(rows)),
                                    field, desc)

\* "for field, direction in order.items()": each item adds a sort key, the
\* first item being the major one; any direction but desc sorts ascending
RECURSIVE OrderRows(_, _)
OrderRows(rows, order) ==
    IF order = << >>
    THEN rows
    ELSE SortRows(OrderRows(rows, Tail(order)), order[1][1], order[1][2] = "desc")

\* get_records with order and limit: `order` is the sequence of the items of
\* the order dict.  A sort key that is no column of the table makes the query
\* fail, and a failed query yields [] (lines 139-145); "if limit:" applies no
\* limit when limit is 0.
GetRecordsOrdered(rows, columns, order, limit, ok) ==
    IF ~ok \/ \E k \in 1..Len(order) : order[k][1] \notin columns
    THEN << >>
    ELSE LET result == OrderRows(rows, order)
         IN IF limit # 0 /\ limit < Len(result)
            THEN SubSeq(result, 1, limit)
            ELSE result

\* PDFExtraction object built from a stored row (BaseRepository.get_all)
ExtractionModel(e) ==
    [id           |-> e,
     cnpj         |-> pdf_extractions[e].cnpj,
     valor        |-> pdf_extractions[e].valor,
     competence   |-> pdf_extractions[e].competence,
     payment_type |-> pdf_extractions[e].payment_type,
     description  |-> pdf_extractions[e].description,
     status       |-> pdf_extractions[e].status]

\* model_dump(exclude={'id'}) of a PDFExtraction: the data BaseRepository.update writes
ExtractionData(x) ==
    [cnpj         |-> x.cnpj,
     valor        |-> x.valor,
     competence   |-> x.competence,
     payment_type |-> x.payment_type,
     description  |-> x.description,
     status       |-> x.status]

\* all rows of pdf_extractions as objects, in id order
AllExtractions == [e \in DOMAIN pdf_extractions |-> ExtractionModel(e)]

\* ValidationRepository.get_control: first row of validation_control matching
\* the triple, or None; a failed query yields None as well (get_records).
GetControl(meta_table_id, payment_type, competence, ok) ==
    LET results == GetRecords(validation_control,
                              [meta_table_id |-> meta_table_id,
                               payment_type  |-> payment_type,
                               competence    |-> competence],
                              ok)
    IN IF Len(results) > 0 THEN Some(results[1]) ELSE None

\* the triple a control row stands for
Triple(c) == <<c.meta_table_id, c.payment_type, c.competence>>

\* does the remote table reject an insert of this row?  unique_key is the
\* set of columns of its unique index (empty: the table has none)
Rejects(rows, row, unique_key) ==
    /\ unique_key # {}
    /\ \E i \in 1..Len(rows) : \A key \in unique_key : rows[i][key] = row[key]

\* the unique index of validation_control, where the table has one
ControlKey ==
    IF uniqueEnforced THEN {"meta_table_id", "payment_type", "competence"} ELSE {}

\* the row as the store keeps it: the store numbers the rows that have an id
StoredRow(row, id) == IF "id" \in DOMAIN row THEN [row EXCEPT !.id = id] ELSE row

\* what one attempt of a store call does: "ok", "error" (nothing stored), or
\* "no_data" (the store performed the insert and the response held no row)
AttemptOutcomes == {"ok", "error", "no_data"}

\* the outcomes of the attempts of one call: any, or all alike (the store
\* answers every attempt, or is down for the whole call)
RetryOutcomes == [1..Retries -> AttemptOutcomes]
CallOutcomes  == {[attempt \in 1..Retries |-> "ok"], [attempt \in 1..Retries |-> "error"]}

\* a call whose attempts fail until one succeeds, or fail Retries times
ErrorOutcomes ==
    {[attempt \in 1..Retries |-> IF attempt < first THEN "error" ELSE "ok"] :
        first \in 1..(Retries + 1)}

\* insert_record under retry_on_error: up to Retries attempts, the first
\* attempt that returns a row ends the call; an attempt raises when the store
\* fails or rejects the row, and on "No result returned" (lines 163-173).
RECURSIVE InsertRecord(_, _, _, _, _)
InsertRecord(rows, row, unique_key, outcomes, attempt) ==
    LET rejected == Rejects(rows, row, unique_key)
        stored   == outcomes[attempt] # "error" /\ ~rejected
        saved    == StoredRow(row, Len(rows) + 1)
        rows2    == IF stored THEN Append(rows, saved) ELSE rows
    IN IF stored /\ outcomes[attempt] = "ok"
       THEN [rows |-> rows2, result |-> Some(saved), attempts |-> attempt,
             rejected |-> FALSE]
       ELSE IF attempt >= Retries
            THEN [rows |-> rows2, result |-> None, attempts |-> attempt,
                  rejected |-> outcomes[attempt] # "error" /\ rejected]
            ELSE InsertRecord(rows2, row, unique_key, outcomes, attempt + 1)

\* the columns of validation_results (models/db/validation.py)
ResultColumns == {"id", "pdf_extraction_id", "meta_table_id", "is_valid", "status",
                  "validation_errors", "details", "validated_at", "created_at"}

\* ValidationRepository.get_validation_history: the order dict it passes has
\* the items ("field", "validated_at") and ("direction", "desc")
GetValidationHistory(limit, ok) ==
    GetRecordsOrdered(validation_results, ResultColumns,
                      << <<"field", "validated_at">>, <<"direction", "desc">> >>,
                      limit, ok)

(* ---------------------------- validation rules ------------------------- *)
ValorError(label, expected) ==
    [field |-> "valor", error |-> "Amount mismatch for " \o label, expected |-> expected]

\* the chain with the payment type tests dropped: every truthy expected amount is compared
AmountErrorsAnyType(extraction, meta_record) ==
    IF Truthy(meta_record.ago_pc)
    THEN IF meta_record.ago_pc # Some(extraction.valor)
         THEN << ValorError("PC", meta_record.ago_pc) >> ELSE << >>
    ELSE IF Truthy(meta_record.ago_bn)
    THEN IF meta_record.ago_bn # Some(extraction.valor)
         THEN << ValorError("Bonus", meta_record.ago_bn) >> ELSE << >>
    ELSE IF Truthy(meta_record.ago_re)
    THEN IF meta_record.ago_re # Some(extraction.valor)
         THEN << ValorError("Reembolso", meta_record.ago_re) >> ELSE << >>
    ELSE << >>

\* validate_extraction lines 89-109: the if / elif chain over the payment type
AmountErrors(extraction, meta_record) ==
    IF extraction.payment_type = "pc" /\ Truthy(meta_record.ago_pc)
    THEN IF meta_record.ago_pc # Some(extraction.valor)
         THEN << ValorError("PC", meta_record.ago_pc) >> ELSE << >>
    ELSE IF extraction.payment_type = "bonus" /\ Truthy(meta_record.ago_bn)
    THEN IF meta_record.ago_bn # Some(extraction.valor)
         THEN << ValorError("Bonus", meta_record.ago_bn) >> ELSE << >>
    ELSE IF extraction.payment_type = "reembolso" /\ Truthy(meta_record.ago_re)
    THEN IF meta_record.ago_re # Some(extraction.valor)
         THEN << ValorError("Reembolso", meta_record.ago_re) >> ELSE << >>
    ELSE << >>

\* ValidationResult objects.  id = 0 is an object that was never inserted
\* (its id is a locally generated uuid that no stored row carries).
NotFoundResult(extraction, validation_timestamp) ==
    [id |-> 0, pdf_extraction_id |-> extraction.id, meta_table_id |-> None,
     validated_at |-> validation_timestamp,
     is_valid |-> FALSE, status |-> "invalid",
     validation_errors |-> << [field |-> "cnpj",
                               error |-> "CNPJ not found in meta table",
                               expected |-> None] >>]

AlreadyValidatedResult(extraction, meta_record, validation_timestamp) ==
    [id |-> 0, pdf_extraction_id |-> extraction.id,
     meta_table_id |-> Some(meta_record.id),
     validated_at |-> validation_timestamp,
     is_valid |-> FALSE, status |-> "already_validated",
     validation_errors |-> << [field |-> "control",
                               error |-> "Document already validated for this period",
                               expected |-> None] >>]

\* A result whose status does not look at the errors found.
NewResultStatusValid(extraction, meta_record, validation_errors, validation_timestamp) ==
    [id |-> 0, pdf_extraction_id |-> extraction.id,
     meta_table_id |-> Some(meta_record.id),
     validated_at |-> validation_timestamp,
     is_valid |-> (Len(validation_errors) = 0),
     status |-> "valid",
     validation_errors |-> validation_errors]

\* lines 131-143: the result of the amount rules
NewResult(extraction, meta_record, validation_errors, validation_timestamp) ==
    [id |-> 0, pdf_extraction_id |-> extraction.id,
     meta_table_id |-> Some(meta_record.id),
     validated_at |-> validation_timestamp,
     is_valid |-> (Len(validation_errors) = 0),
     status |-> IF Len(validation_errors) = 0 THEN "valid" ELSE "invalid",
     validation_errors |-> validation_errors]

NewControl(extraction, meta_record, validation_timestamp) ==
    [meta_table_id |-> meta_record.id,
     payment_type  |-> extraction.payment_type,
     competence    |-> extraction.competence,
     validated_at  |-> validation_timestamp]

(* ---------------------------- initial state ---------------------------- *)
MetaRows ==
    [id : {1}, cpf_cnpj : {KnownCnpj},
     ago_pc : OptAmounts, ago_bn : OptAmounts, ago_re : OptAmounts]

\* rows as handle_upload stores them: status extracted, valor > 0
ExtractionRows ==
    [cnpj : {KnownCnpj, UnknownCnpj}, valor : 1..MaxValor,
     competence : Competences, payment_type : PaymentType,
     description : {""}, status : {"extracted"}]

\* reference rows whose three expected amounts are the same
UniformMetaRows == {m \in MetaRows : m.ago_pc = m.ago_bn /\ m.ago_bn = m.ago_re}

\* A run has one session and any reference row, or NumProc sessions and a
\* reference row with uniform expected amounts.
Init ==
    /\ sessions \in {{1}, Procs}
    /\ meta_table \in {<<m>> : m \in IF sessions = {1} THEN MetaRows ELSE UniformMetaRows}
    /\ pdf_extractions \in [Exts -> ExtractionRows]
    /\ validation_results = << >>
    /\ validation_control = << >>
    /\ uniqueEnforced \in BOOLEAN
    /\ pc = [p \in Procs |-> "idle"]
    /\ call = [p \in Procs |-> NoCall]
    /\ batch = [p \in Procs |-> NoBatch]
    /\ ret = [p \in Procs |-> NoRet]
    /\ batchRet = [p \in Procs |-> NoRet]
    /\ writes = [p \in Procs |-> NoWrites]
    /\ ops = 0
    /\ faults = 0
    /\ faultBudget = MaxFaults
    /\ doc = NoDoc
    /\ clock = 0
    /\ history = NoRet
    /\ lastCall = [p \in Procs |-> NoRet]

\* an operation starts in an idle session; sessions are numbered so that the
\* first operation of a run is started by session 1
StartOp(p) ==
    /\ p \in sessions
    /\ pc[p] = "idle"
    /\ ops < MaxOps
    /\ ops = 0 => p = 1
    /\ ops' = ops + 1

\* a store call succeeds (ok) or fails; at most faultBudget calls fail in a run
StoreCall(ok) ==
    /\ ok \/ faults < faultBudget
    /\ faults' = IF ok THEN faults ELSE faults + 1

\* The amount rules on their own: one session, one stored extraction and any
\* reference row.
InitRules ==
    /\ sessions = {1}
    /\ meta_table \in {<<m>> : m \in MetaRows}
    /\ pdf_extractions \in [1..1 -> ExtractionRows]
    /\ validation_results = << >>
    /\ validation_control = << >>
    /\ uniqueEnforced \in BOOLEAN
    /\ pc = [p \in Procs |-> "idle"]
    /\ call = [p \in Procs |-> NoCall]
    /\ batch = [p \in Procs |-> NoBatch]
    /\ ret = [p \in Procs |-> NoRet]
    /\ batchRet = [p \in Procs |-> NoRet]
    /\ writes = [p \in Procs |-> NoWrites]
    /\ ops = 0
    /\ faults = 0
    /\ faultBudget = MaxFaults
    /\ doc = NoDoc
    /\ clock = 0
    /\ history = NoRet
    /\ lastCall = [p \in Procs |-> NoRet]

\* documents of the supplier of the reference row, with differing amounts
PeriodRows ==
    [cnpj : {KnownCnpj}, valor : 1..MaxValorPeriod,
     competence : Competences, payment_type : PaymentType,
     description : {""}, status : {"extracted"}]

\* Several documents of one supplier for the same period: one session, a
\* reference row with uniform expected amounts.
InitPeriod ==
    /\ sessions = {1}
    /\ meta_table \in {<<m>> : m \in UniformMetaRows}
    /\ pdf_extractions \in [Exts -> PeriodRows]
    /\ validation_results = << >>
    /\ validation_control = << >>
    /\ uniqueEnforced \in BOOLEAN
    /\ pc = [p \in Procs |-> "idle"]
    /\ call = [p \in Procs |-> NoCall]
    /\ batch = [p \in Procs |-> NoBatch]
    /\ ret = [p \in Procs |-> NoRet]
    /\ batchRet = [p \in Procs |-> NoRet]
    /\ writes = [p \in Procs |-> NoWrites]
    /\ ops = 0
    /\ faults = 0
    /\ faultBudget = MaxFaults
    /\ doc = NoDoc
    /\ clock = 0
    /\ history = NoRet
    /\ lastCall = [p \in Procs |-> NoRet]

\* the store calls a run can make: each operation is at most one fetch and,
\* for each extraction, two lookups, two inserts and one update
AllCalls == MaxOps * (1 + 5 * NumExt)

\* Documents of one supplier and one payment type, with an expected amount in
\* the reference row, while the store is unreliable: every store call of the run may fail.
InitFailing ==
    /\ sessions = {1}
    /\ meta_table \in {<<m>> : m \in {u \in UniformMetaRows : Truthy(u.ago_pc)}}
    /\ pdf_extractions \in [Exts -> {x \in PeriodRows : x.payment_type = "pc"}]
    /\ validation_results = << >>
    /\ validation_control = << >>
    /\ uniqueEnforced \in BOOLEAN
    /\ pc = [p \in Procs |-> "idle"]
    /\ call = [p \in Procs |-> NoCall]
    /\ batch = [p \in Procs |-> NoBatch]
    /\ ret = [p \in Procs |-> NoRet]
    /\ batchRet = [p \in Procs |-> NoRet]
    /\ writes = [p \in Procs |-> NoWrites]
    /\ ops = 0
    /\ faults = 0
    /\ faultBudget = AllCalls
    /\ doc = NoDoc
    /\ clock = 0
    /\ history = NoRet
    /\ lastCall = [p \in Procs |-> NoRet]

\* Two sessions over documents of one supplier and a store that never fails.
InitOrder ==
    /\ sessions = Procs
    /\ meta_table \in {<<m>> : m \in {u \in UniformMetaRows : Truthy(u.ago_pc)}}
    /\ pdf_extractions \in [Exts -> {x \in PeriodRows : x.payment_type = "pc"}]
    /\ validation_results = << >>
    /\ validation_control = << >>
    /\ uniqueEnforced \in BOOLEAN
    /\ pc = [p \in Procs |-> "idle"]
    /\ call = [p \in Procs |-> NoCall]
    /\ batch = [p \in Procs |-> NoBatch]
    /\ ret = [p \in Procs |-> NoRet]
    /\ batchRet = [p \in Procs |-> NoRet]
    /\ writes = [p \in Procs |-> NoWrites]
    /\ ops = 0
    /\ faults = 0
    /\ faultBudget = 0
    /\ doc = NoDoc
    /\ clock = 0
    /\ history = NoRet
    /\ lastCall = [p \in Procs |-> NoRet]

(* ---------------------------- validate_extraction ---------------------- *)
\* validate_extraction leaves: `kind` is "returned" or "raised".  Inside
\* validate_all_pending the loop body appends a returned result and goes on.
\* `attempt` records the result object the call had built (None before line 132),
\* `failed` the tables whose lookup failed during the call, and
\* "unique_violation" when the store rejected its control insert as a duplicate.

\* A validate_all_pending loop that stops at the first raised call (the loop of
\* lines 184-189 without its inner try/except).
LeaveAbortOnRaise(p, kind, result, extraction, attempt, failed) ==
    /\ ret' = [ret EXCEPT ![p] = [kind |-> kind, result |-> result,
                                  extraction |-> extraction, attempt |-> attempt,
                                  failed |-> failed]]
    /\ call' = [call EXCEPT ![p] = NoCall]
    /\ IF batch[p].active
       THEN /\ pc' = [pc EXCEPT ![p] = "batch_loop"]
            /\ batch' = [batch EXCEPT ![p] =
                   [@ EXCEPT !.i = IF kind = "returned"
                                   THEN @ + 1 ELSE Len(batch[p].pending) + 1,
                             !.invoked = Append(@, extraction.id),
                             !.results = IF kind = "returned"
                                         THEN Append(@, result) ELSE @]]
       ELSE /\ pc' = [pc EXCEPT ![p] = "idle"]
            /\ batch' = batch

\* lines 165-173 and 186-189: return or raise, and the loop body's append
Leave(p, kind, result, extraction, attempt, failed) ==
    /\ ret' = [ret EXCEPT ![p] = [kind |-> kind, result |-> result,
                                  extraction |-> extraction, attempt |-> attempt,
                                  failed |-> failed]]
    /\ call' = [call EXCEPT ![p] = NoCall]
    /\ IF batch[p].active
       THEN /\ pc' = [pc EXCEPT ![p] = "batch_loop"]
            /\ batch' = [batch EXCEPT ![p] =
                   [@ EXCEPT !.i = @ + 1,
                             !.invoked = Append(@, extraction.id),
                             !.results = IF kind = "returned"
                                         THEN Append(@, result) ELSE @]]
       ELSE /\ pc' = [pc EXCEPT ![p] = "idle"]
            /\ batch' = batch

Finish(p, kind, result) ==
    Leave(p, kind, result, call[p].extraction, call[p].result, call[p].failed)

\* validate_extraction lines 67-109: entry, meta_table lookup, amount rules
Enter(p, extraction, ok) ==
    LET meta_records == GetRecords(meta_table, [cpf_cnpj |-> extraction.cnpj], ok)
    IN /\ writes' = [writes EXCEPT ![p] = NoWrites]
       /\ clock' = clock + 1
       /\ lastCall' = [lastCall EXCEPT ![p] = [call |-> "get_records", attempts |-> 1]]
       /\ IF Len(meta_records) = 0
          THEN Leave(p, "returned", NotFoundResult(extraction, clock + 1), extraction, None,
                     IF ok THEN {} ELSE {"meta_table"})
          ELSE /\ call' = [call EXCEPT ![p] =
                      [active |-> TRUE, extraction |-> extraction,
                       validation_timestamp |-> clock + 1,
                       meta_record |-> meta_records[1],
                       validation_errors |-> AmountErrors(extraction, meta_records[1]),
                       result |-> None, failed |-> {}]]
               /\ pc' = [pc EXCEPT ![p] = "get_control"]
               /\ ret' = [ret EXCEPT ![p] = NoRet]
               /\ batch' = batch

\* a caller hands validate_extraction the extraction object it has read
ValidateExtraction(p, e, ok) ==
    /\ e \in DOMAIN pdf_extractions
    /\ StoreCall(ok)
    /\ StartOp(p)
    /\ Enter(p, ExtractionModel(e), ok)
    /\ UNCHANGED <<stores, faultBudget, doc, history, batchRet>>

\* A duplicate check that marks the extraction failed when the period is
\* already approved, instead of returning at once.
CheckControlMarksFailed(p, ok) ==
    /\ StoreCall(ok)
    /\ pc[p] = "get_control"
    /\ LET c == call[p]
           existing_control == GetControl(c.meta_record.id, c.extraction.payment_type,
                                          c.extraction.competence, ok)
       IN /\ call' = [call EXCEPT ![p] =
                 [@ EXCEPT !.result =
                      IF existing_control # None
                      THEN Some(AlreadyValidatedResult(c.extraction, c.meta_record,
                                                       c.validation_timestamp))
                      ELSE Some(NewResult(c.extraction, c.meta_record,
                                          c.validation_errors, c.validation_timestamp)),
                           !.failed = IF ok THEN @ ELSE @ \cup {"validation_control"}]]
          /\ pc' = [pc EXCEPT ![p] =
                 IF existing_control # None THEN "update_failed" ELSE "create_result"]
          /\ UNCHANGED <<ret, batch>>
    /\ lastCall' = [lastCall EXCEPT ![p] = [call |-> "get_records", attempts |-> 1]]
    /\ UNCHANGED <<stores, faultBudget, doc, history, batchRet, writes, ops, clock>>

\* lines 111-143: duplicate check, then the result object is built
CheckControl(p, ok) ==
    /\ StoreCall(ok)
    /\ pc[p] = "get_control"
    /\ LET c == call[p]
           existing_control == GetControl(c.meta_record.id, c.extraction.payment_type,
                                          c.extraction.competence, ok)
       IN IF existing_control # None
          THEN Finish(p, "returned",
                      AlreadyValidatedResult(c.extraction, c.meta_record,
                                             c.validation_timestamp))
          ELSE /\ call' = [call EXCEPT ![p] =
                      [@ EXCEPT !.result = Some(NewResult(c.extraction, c.meta_record,
                                                          c.validation_errors,
                                                          c.validation_timestamp)),
                                !.failed = IF ok THEN @ ELSE @ \cup {"validation_control"}]]
               /\ pc' = [pc EXCEPT ![p] = "create_result"]
               /\ UNCHANGED <<ret, batch>>
    /\ lastCall' = [lastCall EXCEPT ![p] = [call |-> "get_records", attempts |-> 1]]
    /\ UNCHANGED <<stores, faultBudget, doc, history, batchRet, writes, ops, clock>>

\* A validate_extraction that creates the control entry for every saved
\* result (line 149 without its test).
AfterCreateAlways(result) == "create_control"

\* line 149: "if result.is_valid" chooses the writes that follow the insert
AfterCreate(result) == IF result.is_valid THEN "create_control" ELSE "update_failed"

\* line 146: validation_repository.create(result)
CreateResult(p, outcomes) ==
    /\ StoreCall(outcomes[1] = "ok")
    /\ pc[p] = "create_result"
    /\ LET result == call[p].result[1]
           insert == InsertRecord(validation_results, result, {}, outcomes, 1)
       IN /\ validation_results' = insert.rows
          /\ writes' = [writes EXCEPT ![p].result =
                            @ + Len(insert.rows) - Len(validation_results)]
          /\ lastCall' = [lastCall EXCEPT ![p] =
                            [call |-> "insert_record", attempts |-> insert.attempts]]
          /\ IF insert.result # None
             THEN /\ call' = [call EXCEPT ![p].result = insert.result]
                  /\ pc' = [pc EXCEPT ![p] = AfterCreate(result)]
                  /\ UNCHANGED <<ret, batch>>
             ELSE Finish(p, "raised", None)
    /\ UNCHANGED <<meta_table, pdf_extractions, validation_control, uniqueEnforced,
                   sessions, faultBudget, doc, history, batchRet, ops, clock>>

\* DatabaseTransaction._rollback: the rollback operations are run last to
\* first; an update is written back, a delete does nothing ("pass")
RECURSIVE Rollback(_, _, _)
Rollback(rows, rollback_operations, n) ==
    IF n = 0
    THEN rows
    ELSE LET operation == rollback_operations[n]
             undone == IF operation.action = "update"
                          /\ operation.data.id \in 1..Len(rows)
                       THEN [rows EXCEPT ![operation.data.id] = operation.data]
                       ELSE rows
         IN Rollback(undone, rollback_operations, n - 1)

\* the rollback operations create_control hands to execute_transaction
ControlRollback == << [action |-> "delete", data |-> [id |-> None]] >>

\* lines 149-156: validation_repository.create_control(control) runs a
\* transaction of one insert; when it fails, execute runs _rollback and raises.
CreateControl(p, outcomes) ==
    /\ StoreCall(outcomes[1] = "ok")
    /\ pc[p] = "create_control"
    /\ LET control == NewControl(call[p].extraction, call[p].meta_record,
                                 call[p].validation_timestamp)
           insert == InsertRecord(validation_control, control, ControlKey, outcomes, 1)
           rows == IF insert.result # None
                   THEN insert.rows
                   ELSE Rollback(insert.rows, ControlRollback, Len(ControlRollback))
       IN /\ validation_control' = rows
          /\ writes' = [writes EXCEPT ![p].control =
                            @ + Len(rows) - Len(validation_control)]
          /\ lastCall' = [lastCall EXCEPT ![p] =
                            [call |-> "insert_record", attempts |-> insert.attempts]]
          /\ IF insert.result # None
             THEN /\ pc' = [pc EXCEPT ![p] = "update_validated"]
                  /\ UNCHANGED <<call, ret, batch>>
             ELSE Leave(p, "raised", None, call[p].extraction, call[p].result,
                        IF insert.rejected
                        THEN call[p].failed \cup {"unique_violation"}
                        ELSE call[p].failed)
    /\ UNCHANGED <<meta_table, pdf_extractions, validation_results, uniqueEnforced,
                   sessions, faultBudget, doc, history, batchRet, ops, clock>>

\* lines 158-165: extraction.status is set on the caller's object and the
\* whole object is written back (BaseRepository.update); then return.
UpdateStatus(p, status, ok) ==
    LET extraction == [call[p].extraction EXCEPT !.status = status]
    IN /\ lastCall' = [lastCall EXCEPT ![p] = [call |-> "update_record", attempts |-> 1]]
       /\ IF ok
          THEN /\ pdf_extractions' = [pdf_extractions EXCEPT
                      ![extraction.id] = ExtractionData(extraction)]
               /\ writes' = [writes EXCEPT ![p].status = @ + 1]
               /\ Finish(p, "returned", call[p].result[1])
          ELSE /\ Finish(p, "raised", None)
               /\ UNCHANGED <<pdf_extractions, writes>>

UpdateValidated(p, ok) ==
    /\ StoreCall(ok)
    /\ pc[p] = "update_validated"
    /\ UpdateStatus(p, "validated", ok)
    /\ UNCHANGED <<meta_table, validation_results, validation_control, uniqueEnforced,
                   sessions, faultBudget, doc, history, batchRet, ops, clock>>

UpdateFailed(p, ok) ==
    /\ StoreCall(ok)
    /\ pc[p] = "update_failed"
    /\ UpdateStatus(p, "failed", ok)
    /\ UNCHANGED <<meta_table, validation_results, validation_control, uniqueEnforced,
                   sessions, faultBudget, doc, history, batchRet, ops, clock>>

(* ---------------------------- other writers ---------------------------- *)
\* extraction e is held as an object by a running call or a running batch
Held(e) ==
    \E p \in Procs :
        \/ call[p].active /\ call[p].extraction.id = e
        \/ /\ batch[p].active
           /\ \E k \in batch[p].i..Len(batch[p].pending) : batch[p].pending[k].id = e

\* Another process of the store changes a field of a stored extraction (here
\* its description) through update_record while the service holds the
\* extraction as an object.  It is one of the MaxOps operations of a run.
ExternalEdit(e) ==
    /\ e \in DOMAIN pdf_extractions
    /\ Held(e)
    /\ pdf_extractions[e].description = ""
    /\ ops < MaxOps
    /\ ops' = ops + 1
    /\ pdf_extractions' = [pdf_extractions EXCEPT ![e].description = "edited"]
    /\ UNCHANGED <<meta_table, validation_results, validation_control, uniqueEnforced,
                   sessions, faultBudget, doc, history, pc, call, batch, ret, batchRet, writes, faults,
                   clock, lastCall>>

(* ---------------------------- validate_all_pending --------------------- *)
\* the ids of a sequence of rows, in order
IdsOfRows(rows) == [k \in 1..Len(rows) |-> rows[k].id]

\* the orders in which a query without an order clause may answer its rows
Orderings(rows) ==
    LET n     == Len(rows)
        perms == {f \in [1..n -> 1..n] : \A a, b \in 1..n : f[a] = f[b] => a = b}
    IN {[k \in 1..n |-> rows[f[k]]] : f \in perms}

\* lines 179-183: snapshot of the extractions in status extracted, as fetched
Fetch(p, ok, pending) ==
    /\ StoreCall(ok)
    /\ StartOp(p)
    /\ batch' = [batch EXCEPT ![p] =
           [active |-> TRUE,
            pending |-> pending,
            i |-> 1, results |-> << >>,
            invoked |-> << >>, first_row |-> Len(validation_results) + 1]]
    /\ pc' = [pc EXCEPT ![p] = "batch_loop"]
    /\ batchRet' = [batchRet EXCEPT ![p] = NoRet]
    /\ lastCall' = [lastCall EXCEPT ![p] = [call |-> "get_records", attempts |-> 1]]
    /\ UNCHANGED <<stores, faultBudget, doc, history, call, ret, writes, clock>>

\* get_all(filters = status extracted) where the store answers the matching
\* rows in the order of their ids
ValidateAllPending(p, ok) ==
    Fetch(p, ok, GetRecords(AllExtractions, [status |-> "extracted"], ok))

\* get_all passes no order to get_records: the store may answer the matching
\* rows in any order; order is the order in which it goes through its rows
ValidateAllPendingAnyOrder(p, ok, order) ==
    LET scanned == [k \in 1..Len(order) |-> AllExtractions[order[k]]]
    IN Fetch(p, ok, GetRecords(scanned, [status |-> "extracted"], ok))

\* lines 184-186: next iteration of the loop calls validate_extraction
BatchNext(p, ok) ==
    /\ StoreCall(ok)
    /\ pc[p] = "batch_loop"
    /\ batch[p].i <= Len(batch[p].pending)
    /\ Enter(p, batch[p].pending[batch[p].i], ok)
    /\ UNCHANGED <<stores, faultBudget, doc, history, batchRet, ops>>

\* a loop that is left only once some call has produced a result
BatchReturnIfAny(p) ==
    /\ pc[p] = "batch_loop"
    /\ batch[p].i > Len(batch[p].pending)
    /\ Len(batch[p].results) > 0
    /\ batchRet' = [batchRet EXCEPT ![p] =
           [kind |-> "returned", results |-> batch[p].results,
            pending |-> batch[p].pending, invoked |-> batch[p].invoked,
            first_row |-> batch[p].first_row,
            last_row |-> Len(validation_results)]]
    /\ batch' = [batch EXCEPT ![p] = NoBatch]
    /\ pc' = [pc EXCEPT ![p] = "idle"]
    /\ UNCHANGED <<stores, faultBudget, doc, history, call, ret, writes, ops, faults, clock, lastCall>>

\* line 191: return results
BatchReturn(p) ==
    /\ pc[p] = "batch_loop"
    /\ batch[p].i > Len(batch[p].pending)
    /\ batchRet' = [batchRet EXCEPT ![p] =
           [kind |-> "returned", results |-> batch[p].results,
            pending |-> batch[p].pending, invoked |-> batch[p].invoked,
            first_row |-> batch[p].first_row,
            last_row |-> Len(validation_results)]]
    /\ batch' = [batch EXCEPT ![p] = NoBatch]
    /\ pc' = [pc EXCEPT ![p] = "idle"]
    /\ UNCHANGED <<stores, faultBudget, doc, history, call, ret, writes, ops, faults, clock, lastCall>>

Next ==
    \/ \E p \in Procs, e \in Exts, ok \in BOOLEAN : ValidateExtraction(p, e, ok)
    \/ \E p \in Procs, ok \in BOOLEAN : CheckControl(p, ok)
    \/ \E p \in Procs, outcomes \in CallOutcomes : CreateResult(p, outcomes)
    \/ \E p \in Procs, outcomes \in CallOutcomes : CreateControl(p, outcomes)
    \/ \E p \in Procs, ok \in BOOLEAN : UpdateValidated(p, ok)
    \/ \E p \in Procs, ok \in BOOLEAN : UpdateFailed(p, ok)
    \/ \E p \in Procs, ok \in BOOLEAN : ValidateAllPending(p, ok)
    \/ \E p \in Procs, ok \in BOOLEAN : BatchNext(p, ok)
    \/ \E p \in Procs : BatchReturn(p)
    \/ \E e \in Exts : ExternalEdit(e)

\* the validation history is read with a limit: one of the MaxOps operations
\* of a run
ReadHistory(limit, ok) ==
    /\ StoreCall(ok)
    /\ ops < MaxOps
    /\ ops' = ops + 1
    /\ history' = [kind |-> "read", limit |-> limit, answered |-> ok,
                   rows |-> GetValidationHistory(limit, ok),
                   at |-> Len(validation_results)]
    /\ UNCHANGED <<stores, faultBudget, doc, pc, call, batch, ret, batchRet, writes, clock, lastCall>>

NextHistory ==
    \/ Next
    \/ \E limit \in 0..MaxLimit, ok \in BOOLEAN : ReadHistory(limit, ok)

\* the service with every outcome of every attempt of its inserts
NextRetry ==
    \/ \E p \in Procs, e \in Exts, ok \in BOOLEAN : ValidateExtraction(p, e, ok)
    \/ \E p \in Procs, ok \in BOOLEAN : CheckControl(p, ok)
    \/ \E p \in Procs, outcomes \in RetryOutcomes : CreateResult(p, outcomes)
    \/ \E p \in Procs, outcomes \in RetryOutcomes : CreateControl(p, outcomes)
    \/ \E p \in Procs, ok \in BOOLEAN : UpdateValidated(p, ok)
    \/ \E p \in Procs, ok \in BOOLEAN : UpdateFailed(p, ok)
    \/ \E p \in Procs, ok \in BOOLEAN : ValidateAllPending(p, ok)
    \/ \E p \in Procs, ok \in BOOLEAN : BatchNext(p, ok)
    \/ \E p \in Procs : BatchReturn(p)

Spec == Init /\ [][Next]_vars

SpecRules == InitRules /\ [][Next]_vars

SpecPeriod == InitPeriod /\ [][Next]_vars

SpecHistory == InitPeriod /\ [][NextHistory]_vars

SpecRetry == InitPeriod /\ [][NextRetry]_vars

\* the steps that continue the operation session p has started
Continue(p) ==
    \/ \E ok \in BOOLEAN : CheckControl(p, ok)
    \/ \E outcomes \in ErrorOutcomes : CreateResult(p, outcomes)
    \/ \E outcomes \in ErrorOutcomes : CreateControl(p, outcomes)
    \/ \E ok \in BOOLEAN : UpdateValidated(p, ok)
    \/ \E ok \in BOOLEAN : UpdateFailed(p, ok)
    \/ \E ok \in BOOLEAN : BatchNext(p, ok)
    \/ BatchReturn(p)

NextFailing ==
    \/ \E p \in Procs, e \in Exts, ok \in BOOLEAN : ValidateExtraction(p, e, ok)
    \/ \E p \in Procs, ok \in BOOLEAN : ValidateAllPending(p, ok)
    \/ \E p \in Procs : Continue(p)

\* batches only, over a store that answers a query without an order clause in
\* any order
NextOrder ==
    \/ \E p \in Procs, ok \in BOOLEAN, order \in Orderings(IdsOfRows(AllExtractions)) :
          ValidateAllPendingAnyOrder(p, ok, order)
    \/ \E p \in Procs : Continue(p)

SpecOrder == InitOrder /\ [][NextOrder]_vars

\* validate_extraction and validate_all_pending are synchronous functions: a
\* call that has started keeps executing its next statement, and each store
\* call comes back with a result or an exception.
SpecFailing ==
    InitFailing /\ [][NextFailing]_vars /\ \A p \in Procs : WF_vars(Continue(p))

(* ---------------------------- document processing ----------------------- *)
\* str(e) of an exception raised inside a node: a message, or the empty
\* string of an exception raised without one
Messages == {"", "failure"}

\* what the work of a node comes to: it completes or raises an exception
NodeOutcomes == {[kind |-> "ok"]} \cup {[kind |-> "raise", message |-> m] : m \in Messages}

\* extract_text may also find no text in the file
ExtractOutcomes == NodeOutcomes \cup {[kind |-> "blank"]}

\* the JSON objects the parser may deliver
JsonOutputs ==
    [cnpj : {KnownCnpj, "123"}, valor : 0..MaxValor, competence : Competences,
     payment_type : {"pc"}, description : {""}]

ParseOutcomes ==
    {[kind |-> "ok", json |-> j] : j \in JsonOutputs}
        \cup {[kind |-> "raise", message |-> m] : m \in Messages}

\* models/processing/states.py: create_initial_state
CreateInitialState ==
    [raw_text |-> None, llm_analysis |-> None, json_output |-> None, error |-> None]

\* Python truthiness of an Optional[str]: None and "" are falsy
TruthyStr(x) == x # None /\ x[1] # ""

\* f"Text extraction failed: {str(e)}"
ExtractionFailed(message) ==
    IF message = "" THEN "Text extraction failed: " ELSE "Text extraction failed: failure"

\* _extract_text, lines 97-135
ExtractTextNode(state, outcome) ==
    CASE outcome.kind = "ok"    -> [state EXCEPT !.raw_text = Some("text")]
      [] outcome.kind = "blank" -> [state EXCEPT !.error = Some("No text content found in PDF")]
      [] outcome.kind = "raise" ->
             [state EXCEPT !.error = Some(ExtractionFailed(outcome.message))]

\* _analyze_text, lines 137-173
AnalyzeTextNode(state, outcome) ==
    IF TruthyStr(state.error)
    THEN state
    ELSE IF outcome.kind = "ok"
         THEN [state EXCEPT !.llm_analysis = Some("analysis")]
         ELSE [state EXCEPT !.error = Some(outcome.message)]

\* _parse_json, lines 175-210
ParseJsonNode(state, outcome) ==
    IF TruthyStr(state.error)
    THEN state
    ELSE IF outcome.kind = "ok"
         THEN [state EXCEPT !.json_output = Some(outcome.json)]
         ELSE [state EXCEPT !.error = Some(outcome.message)]

\* the validators of PDFExtraction: cnpj of 14 digits, valor > 0
ValidExtractionData(json) == json.cnpj \in {KnownCnpj, UnknownCnpj} /\ json.valor > 0

\* handle_upload starts process_document on an uploaded file
StartUpload ==
    /\ doc.node \in {"none", "done"}
    /\ ops < MaxOps
    /\ ops' = ops + 1
    /\ doc' = [node |-> "extract_text", state |-> CreateInitialState,
               recorded |-> {}, late |-> {}, outcome |-> "none",
               before |-> Len(pdf_extractions)]
    /\ UNCHANGED <<stores, faultBudget, history, pc, call, batch, ret, batchRet, writes,
                   faults, clock, lastCall>>

\* one node of the graph runs: recorded holds the nodes that recorded an
\* error, late the nodes that changed the state after an error was recorded
RunNode(node, new, next) ==
    /\ doc.node = node
    /\ doc' = [doc EXCEPT
                 !.node = next,
                 !.state = new,
                 !.recorded = IF new.error # doc.state.error THEN @ \cup {node} ELSE @,
                 !.late = IF doc.recorded # {} /\ new # doc.state THEN @ \cup {node} ELSE @]
    /\ UNCHANGED <<stores, faultBudget, history, pc, call, batch, ret, batchRet, writes,
                   ops, faults, clock, lastCall>>

ExtractText(outcome) ==
    RunNode("extract_text", ExtractTextNode(doc.state, outcome), "analyze_text")

AnalyzeText(outcome) ==
    RunNode("analyze_text", AnalyzeTextNode(doc.state, outcome), "parse_json")

ParseJson(outcome) ==
    RunNode("parse_json", ParseJsonNode(doc.state, outcome), "process_document")

\* process_document, lines 224-260: the error check, then the PDFExtraction
\* object; every exception leaves as ExtractionError
ProcessDocument ==
    /\ doc.node = "process_document"
    /\ LET final_state == doc.state
           built == /\ ~TruthyStr(final_state.error)
                    /\ final_state.json_output # None
                    /\ final_state.raw_text # None
                    /\ ValidExtractionData(final_state.json_output[1])
       IN doc' = IF built
                 THEN [doc EXCEPT !.node = "create_extraction"]
                 ELSE [doc EXCEPT !.node = "done", !.outcome = "raised"]
    /\ UNCHANGED <<stores, faultBudget, history, pc, call, batch, ret, batchRet, writes,
                   ops, faults, clock, lastCall>>

\* the rollback operations create_extraction hands to execute_transaction
ExtractionRollback == << [action |-> "delete", data |-> [id |-> None]] >>

\* upload.py line 22: extraction_repository.create_extraction(extraction)
CreateExtraction(outcomes) ==
    /\ StoreCall(outcomes[1] = "ok")
    /\ doc.node = "create_extraction"
    /\ LET json_data  == doc.state.json_output[1]
           extraction == [cnpj |-> json_data.cnpj, valor |-> json_data.valor,
                          competence |-> json_data.competence,
                          payment_type |-> json_data.payment_type,
                          description |-> json_data.description,
                          status |-> "extracted"]
           insert == InsertRecord(pdf_extractions, extraction, {}, outcomes, 1)
           rows == IF insert.result # None
                   THEN insert.rows
                   ELSE Rollback(insert.rows, ExtractionRollback, Len(ExtractionRollback))
       IN /\ pdf_extractions' = rows
          /\ doc' = [doc EXCEPT !.node = "done",
                                !.outcome = IF insert.result # None THEN "saved"
                                            ELSE "database_error"]
    /\ UNCHANGED <<meta_table, validation_results, validation_control, uniqueEnforced,
                   sessions, faultBudget, history, pc, call, batch, ret, batchRet, writes,
                   ops, clock, lastCall>>

NextUpload ==
    \/ StartUpload
    \/ \E outcome \in ExtractOutcomes : ExtractText(outcome)
    \/ \E outcome \in NodeOutcomes : AnalyzeText(outcome)
    \/ \E outcome \in ParseOutcomes : ParseJson(outcome)
    \/ ProcessDocument
    \/ \E outcomes \in RetryOutcomes : CreateExtraction(outcomes)

SpecUpload == InitPeriod /\ [][NextUpload]_vars

(* ---------------------------- vocabulary of the properties -------------- *)
Returned(p) == ret[p].kind = "returned"
Raised(p)   == ret[p].kind = "raised"

\* the reference row that really is in the store for a tax id (None if absent)
MetaOf(cnpj) ==
    LET rows == SelectSeq(meta_table, LAMBDA m : m.cpf_cnpj = cnpj)
    IN IF Len(rows) > 0 THEN Some(rows[1]) ELSE None

\* the expected-amount field of a payment type
ExpectedFor(m, payment_type) ==
    CASE payment_type = "pc"        -> m.ago_pc
      [] payment_type = "bonus"     -> m.ago_bn
      [] payment_type = "reembolso" -> m.ago_re

\* the (reference id, payment type, competence) triple of an extraction
TripleOf(x) == <<MetaOf(x.cnpj)[1].id, x.payment_type, x.competence>>

ControlRowsOf(t) == {i \in 1..Len(validation_control) : Triple(validation_control[i]) = t}

HasValorError(result) ==
    \E i \in 1..Len(result.validation_errors) : result.validation_errors[i].field = "valor"

ResultRowsOf(e) == {i \in 1..Len(validation_results) :
                        validation_results[i].pdf_extraction_id = e}

\* the most recent Validation Result of extraction e is a valid one
LastResultValid(e) ==
    /\ ResultRowsOf(e) # {}
    /\ validation_results[CHOOSE i \in ResultRowsOf(e) :
                              \A j \in ResultRowsOf(e) : j <= i].is_valid

(* ---------------------------- C1 ---------------------------------------- *)
\* C1: in every reachable state the Validation Control store holds at most one
\* entry for each (reference record id, payment type, competence) triple.
C1_UniqueControl ==
    \A i, j \in 1..Len(validation_control) :
        Triple(validation_control[i]) = Triple(validation_control[j]) => i = j

(* ---------------------------- C2 ---------------------------------------- *)
\* C2: two concurrent validate() calls on extractions of the same triple never
\* both return a valid result (stated for runs in which no store call failed).
C2_NoDoubleValid ==
    faults = 0 =>
        \A p, q \in Procs :
            (/\ p # q
             /\ Returned(p) /\ ret[p].result.status = "valid"
             /\ Returned(q) /\ ret[q].result.status = "valid")
            => TripleOf(ret[p].extraction) # TripleOf(ret[q].extraction)

(* ---------------------------- C3 ---------------------------------------- *)
\* C3: with calls made one after the other (a single session), a validate()
\* call that returns for a triple whose control entry was created by an
\* earlier call yields already_validated, and the triple never has a second
\* control entry.
C3_LaterCallAlreadyValidated ==
    sessions = {1} =>
        \A p \in Procs :
            (/\ Returned(p)
             /\ MetaOf(ret[p].extraction.cnpj) # None
             /\ writes[p].control = 0
             /\ ControlRowsOf(TripleOf(ret[p].extraction)) # {})
            => /\ ret[p].result.status = "already_validated"
               /\ Cardinality(ControlRowsOf(TripleOf(ret[p].extraction))) = 1

(* ---------------------------- C4 ---------------------------------------- *)
\* C4: when a validate() call on the valid path has ended (returned or raised),
\* its three writes (result row, control row, status update) are all in the
\* stores or none of them is.
C4_ValidPathAtomic ==
    \A p \in Procs :
        (/\ Returned(p) \/ Raised(p)
         /\ ret[p].attempt # None
         /\ ret[p].attempt[1].is_valid)
        => \/ writes[p] = [result |-> 0, control |-> 0, status |-> 0]
           \/ writes[p] = [result |-> 1, control |-> 1, status |-> 1]

(* ---------------------------- C5 ---------------------------------------- *)
\* C5: after a validate() call on an extraction has returned (single session),
\* the extraction's status is validated iff its most recent Validation Result
\* is valid and a control entry exists for its triple; otherwise it is failed.
C5_StatusMatchesResult ==
    sessions = {1} =>
        \A p \in Procs :
            Returned(p) =>
                LET x == ret[p].extraction
                    ok == /\ LastResultValid(x.id)
                          /\ MetaOf(x.cnpj) # None
                          /\ ControlRowsOf(TripleOf(x)) # {}
                IN pdf_extractions[x.id].status = IF ok THEN "validated" ELSE "failed"

(* ---------------------------- C6 ---------------------------------------- *)
\* C6: validate() of an extraction whose tax id is not in the reference store
\* returns status meta_not_found with is_valid = false, and the extraction's
\* status becomes failed.
C6_MetaNotFound ==
    sessions = {1} =>
        \A p \in Procs :
            (Returned(p) /\ MetaOf(ret[p].extraction.cnpj) = None)
            => /\ ret[p].result.status = "meta_not_found"
               /\ ret[p].result.is_valid = FALSE
               /\ pdf_extractions[ret[p].extraction.id].status = "failed"

(* ---------------------------- C7 ---------------------------------------- *)
\* C7: validate() of an extraction with no control entry yet for its triple,
\* whose reference row has a non-null expected amount for its payment type
\* (zero included) that differs from its amount, returns invalid with a
\* 'valor' error naming the expected value and creates no control entry
\* (stated for a single session and runs in which no store call failed).
C7_MismatchIsInvalid ==
    (sessions = {1} /\ faults = 0) =>
        \A p \in Procs :
            (/\ Returned(p)
             /\ MetaOf(ret[p].extraction.cnpj) # None
             /\ LET x == ret[p].extraction
                    expected == ExpectedFor(MetaOf(x.cnpj)[1], x.payment_type)
                IN /\ expected # None
                   /\ expected # Some(x.valor)
                   /\ Cardinality(ControlRowsOf(TripleOf(x))) = writes[p].control)
            => LET x == ret[p].extraction
                   expected == ExpectedFor(MetaOf(x.cnpj)[1], x.payment_type)
               IN /\ ret[p].result.status = "invalid"
                  /\ ret[p].result.is_valid = FALSE
                  /\ \E i \in 1..Len(ret[p].result.validation_errors) :
                        /\ ret[p].result.validation_errors[i].field = "valor"
                        /\ ret[p].result.validation_errors[i].expected = expected
                  /\ writes[p].control = 0

(* ---------------------------- C8 ---------------------------------------- *)
\* the expected amount of the extraction's own payment type equals its amount or is unset
ExpectedAgrees(x) ==
    /\ MetaOf(x.cnpj) # None
    /\ ExpectedFor(MetaOf(x.cnpj)[1], x.payment_type) \in {None, Some(x.valor)}

\* C8: when the expected amount of the extraction's own payment type equals
\* the extraction's amount or is unset, no result of validate() for it (the
\* returned object or a stored row) carries a 'valor' error, whatever the
\* expected amounts of the other two payment types are.
C8_NoSpuriousMismatch ==
    /\ \A p \in Procs :
          (Returned(p) /\ ExpectedAgrees(ret[p].extraction))
          => ~HasValorError(ret[p].result)
    /\ \A i \in 1..Len(validation_results) :
          ExpectedAgrees(ExtractionModel(validation_results[i].pdf_extraction_id))
          => ~HasValorError(validation_results[i])

\* a call has returned a valid result for an extraction whose own expected
\* amount equals its amount while the two other expected amounts differ from it
C8_Witness ==
    \E p \in Procs :
        /\ Returned(p)
        /\ ret[p].result.status = "valid"
        /\ MetaOf(ret[p].extraction.cnpj) # None
        /\ LET x == ret[p].extraction
               m == MetaOf(x.cnpj)[1]
           IN /\ ExpectedFor(m, x.payment_type) = Some(x.valor)
              /\ \A t \in PaymentType \ {x.payment_type} :
                    Truthy(ExpectedFor(m, t)) /\ ExpectedFor(m, t) # Some(x.valor)

(* ---------------------------- C9 ---------------------------------------- *)
\* C9: every validate() call that returns a result has written exactly one
\* Validation Result row, and the returned result is that stored row.
C9_ReturnedIsPersisted ==
    \A p \in Procs :
        Returned(p) =>
            /\ writes[p].result = 1
            /\ \E i \in 1..Len(validation_results) : validation_results[i] = ret[p].result

(* ---------------------------- C10 --------------------------------------- *)
\* C10: every validate() call that returns has updated the extraction's
\* status: to validated for a valid result, to failed for a rejection.
C10_StatusAlwaysUpdated ==
    sessions = {1} =>
        \A p \in Procs :
            Returned(p) =>
                /\ writes[p].status = 1
                /\ pdf_extractions[ret[p].extraction.id].status =
                       IF ret[p].result.status = "valid" THEN "validated" ELSE "failed"

(* ---------------------------- C11 - C13: store failures ------------------ *)
\* validate_extraction has ended for session p (returned or raised)
Ended(p) == ret[p].kind # "none"

\* C11: a call whose reference lookup failed in the store raises a system
\* error; it never returns a business-rule result such as "CNPJ not found".
C11_MetaFailureRaises ==
    \A p \in Procs :
        (Ended(p) /\ "meta_table" \in ret[p].failed) => Raised(p)

\* C12: a call whose control lookup failed in the store raises a system error:
\* it returns no result, inserts no control entry and sets no status.
C12_ControlFailureRaises ==
    \A p \in Procs :
        (Ended(p) /\ "validation_control" \in ret[p].failed) =>
            /\ Raised(p)
            /\ writes[p].control = 0
            /\ writes[p].status = 0

\* C13: when a call raises a system error, no Validation Result row written
\* by that call remains in the store.
C13_RaiseLeavesNoResult ==
    \A p \in Procs :
        Raised(p) => writes[p].result = 0


(* ---------------------------- C14 - C15: batch ---------------------------- *)
\* validate_all_pending has returned for session p
BatchReturned(p) == batchRet[p].kind = "returned"

\* the extraction ids of a sequence of extraction objects, in order
IdsOf(extractions) == [k \in 1..Len(extractions) |-> extractions[k].id]

\* C14: validate_all_pending invokes validate_extraction exactly once for each
\* extraction of its snapshot, which holds extractions of status extracted
\* only, and for no other extraction; a call that raises does not end the loop.
C14_BatchVisitsSnapshot ==
    \A p \in Procs :
        /\ batch[p].active =>
              /\ \A k \in 1..Len(batch[p].pending) :
                     batch[p].pending[k].status = "extracted"
              /\ batch[p].invoked
                     = SubSeq(IdsOf(batch[p].pending), 1, Len(batch[p].invoked))
        /\ BatchReturned(p) =>
              /\ batchRet[p].invoked = IdsOf(batchRet[p].pending)
              /\ \A k, l \in 1..Len(batchRet[p].invoked) :
                     batchRet[p].invoked[k] = batchRet[p].invoked[l] => k = l

\* a batch of two extractions whose first call raised and whose second call
\* still ran and returned its result
C14_Witness ==
    \E p \in Procs :
        /\ BatchReturned(p)
        /\ Len(batchRet[p].pending) = 2
        /\ Len(batchRet[p].invoked) = 2
        /\ Len(batchRet[p].results) = 1
        /\ batchRet[p].results[1].pdf_extraction_id = batchRet[p].pending[2].id


\* the Validation Result rows written while the batch of session p ran, when
\* no other session was writing
RowsOfBatch(p) ==
    {validation_results[k] : k \in batchRet[p].first_row..batchRet[p].last_row}

\* C15: the list returned by validate_all_pending holds a result for an
\* extraction iff a Validation Result row for that extraction was written
\* during the batch (single session).
C15_ListedIffWritten ==
    \A p \in Procs :
        (BatchReturned(p) /\ sessions = {p}) =>
            \A e \in DOMAIN pdf_extractions :
                (\E k \in 1..Len(batchRet[p].results) :
                     batchRet[p].results[k].pdf_extraction_id = e)
                <=> (\E row \in RowsOfBatch(p) : row.pdf_extraction_id = e)


(* ---------------------------- C16 - C18: control entries ------------------ *)
\* a call has returned a valid result for triple t: its extraction was set to
\* validated, the last step before the valid result is returned
ValidReturnedFor(t) ==
    \E e \in DOMAIN pdf_extractions :
        /\ pdf_extractions[e].status = "validated"
        /\ MetaOf(pdf_extractions[e].cnpj) # None
        /\ TripleOf(pdf_extractions[e]) = t

\* C16: after validate_extraction has returned a valid result for a triple,
\* get_control for that triple returns an entry: no later call gets None
\* from its control lookup and goes on to build a result.
C16_ControlRoundTrip ==
    [][\A p \in Procs :
          (pc[p] = "get_control" /\ pc'[p] = "create_result") =>
              ~ValidReturnedFor(<<call[p].meta_record.id,
                                  call[p].extraction.payment_type,
                                  call[p].extraction.competence>>)]_vars

\* the amount of extraction object x differs from the expected amount of its
\* reference row
AmountDiffers(x) ==
    /\ MetaOf(x.cnpj) # None
    /\ ExpectedFor(MetaOf(x.cnpj)[1], x.payment_type) # None
    /\ ExpectedFor(MetaOf(x.cnpj)[1], x.payment_type)[1] # x.valor

\* C17: a call on an extraction whose triple already had a control entry and
\* whose amount differs from the expected amount returns already_validated
\* with the single error on field control (single session).
C17_DuplicateTakesPrecedence ==
    \A p \in Procs :
        (/\ Ended(p)
         /\ sessions = {p}
         /\ AmountDiffers(ret[p].extraction)
         /\ ControlRowsOf(TripleOf(ret[p].extraction)) # {}
         /\ writes[p].control = 0)
        => /\ Returned(p)
           /\ ret[p].result.status = "already_validated"
           /\ Len(ret[p].result.validation_errors) = 1
           /\ ret[p].result.validation_errors[1].field = "control"


\* C18: a control entry is created only by a validate_extraction call whose
\* result is valid, and no step updates or deletes an existing control
\* entry: validation_control only grows, by rows of the caller's triple.
C18_ControlOnlyGrows ==
    [][/\ Len(validation_control') >= Len(validation_control)
       /\ SubSeq(validation_control', 1, Len(validation_control)) = validation_control
       /\ validation_control' # validation_control =>
              \E p \in Procs :
                  /\ pc[p] = "create_control"
                  /\ call[p].result[1].is_valid
                  /\ call[p].result[1].status = "valid"
                  /\ call[p].result[1] \in
                         {validation_results[k] : k \in 1..Len(validation_results)}
                  /\ \A k \in (Len(validation_control) + 1)..Len(validation_control') :
                         validation_control'[k] =
                             [meta_table_id |-> call[p].meta_record.id,
                              payment_type  |-> call[p].extraction.payment_type,
                              competence    |-> call[p].extraction.competence,
                              validated_at  |-> call[p].validation_timestamp]]_vars

\* a control entry has been created, and a call with an invalid result has
\* stored its result and ended
C18_Witness ==
    /\ Len(validation_control) >= 1
    /\ \E k \in 1..Len(validation_results) : validation_results[k].is_valid
    /\ \E p \in Procs :
           /\ Ended(p)
           /\ ret[p].attempt # None
           /\ ~ret[p].attempt[1].is_valid
           /\ writes[p].result = 1


(* ---------------------------- C19 - C20: frame and history --------------- *)
\* a step of the service: every step of validate_extraction and of
\* validate_all_pending moves the program counter of a session
ServiceStep == pc' # pc

\* C19: a step of validate_extraction changes no stored field of its
\* extraction other than status, changes and deletes no other extraction and
\* does not write meta_table, also when the stored row was changed after the
\* extraction object was read.
C19_OnlyStatusChanges ==
    [][ServiceStep =>
          /\ meta_table' = meta_table
          /\ DOMAIN pdf_extractions' = DOMAIN pdf_extractions
          /\ \A e \in DOMAIN pdf_extractions :
                 /\ [pdf_extractions'[e] EXCEPT !.status = pdf_extractions[e].status]
                        = pdf_extractions[e]
                 /\ pdf_extractions'[e] # pdf_extractions[e] =>
                        \E p \in Procs : call[p].active /\ call[p].extraction.id = e]_vars


\* C20: a history read with limit n that the store answered returns at most
\* n Validation Results, the n most recent ones by validated_at, descending.
C20_HistoryMostRecent ==
    (history.kind = "read" /\ history.answered) =>
        LET stored == SubSeq(validation_results, 1, history.at)
            recent == SortRows(stored, "validated_at", TRUE)
        IN /\ Len(history.rows) <= history.limit
           /\ history.rows = SubSeq(recent, 1, IF history.limit < Len(recent)
                                               THEN history.limit ELSE Len(recent))


(* ---------------------------- C21 ---------------------------------------- *)
\* C21: a call whose control insert the store rejected as a duplicate of an
\* existing entry returns an already_validated result instead of raising,
\* and no valid Validation Result of that call remains.
C21_RejectedInsertIsAlreadyValidated ==
    \A p \in Procs :
        (Ended(p) /\ "unique_violation" \in ret[p].failed) =>
            /\ Returned(p)
            /\ ret[p].result.status = "already_validated"
            /\ ~\E k \in 1..Len(validation_results) :
                   /\ validation_results[k].id = ret[p].attempt[1].id
                   /\ validation_results[k].is_valid


(* ---------------------------- C22 ---------------------------------------- *)
\* C22: a store call of validate_extraction that fails is retried: the call
\* makes at most Retries attempts and its error reaches the caller only
\* after Retries attempts have failed.
C22_FailuresAreRetried ==
    [][\A p \in Procs :
          /\ lastCall'[p] # NoRet => lastCall'[p].attempts <= Retries
          /\ (~Raised(p) /\ ret'[p].kind = "raised") =>
                 lastCall'[p].attempts = Retries]_vars


(* ---------------------------- C23 ---------------------------------------- *)
\* C23: validate and validate_all_pending terminate: no store call makes more
\* than Retries attempts, and every operation that has started comes to its
\* end, also when each of its store calls fails.
C23_OperationsTerminate ==
    \A p \in Procs :
        /\ [](lastCall[p] # NoRet => lastCall[p].attempts <= Retries)
        /\ (pc[p] # "idle") ~> (pc[p] = "idle")

\* a batch over NumExt extractions in which every lookup and every insert
\* failed has returned, with no result
C23_Witness ==
    /\ BatchReturned(1)
    /\ Len(batchRet[1].pending) = NumExt
    /\ batchRet[1].results = << >>
    /\ faults = 2 * NumExt
    /\ Len(validation_results) = 0

(* ---------------------------- C24 ---------------------------------------- *)
\* the place of extraction id in the snapshot of session p (0 if absent)
PlaceIn(pending, id) ==
    IF \E k \in 1..Len(pending) : pending[k].id = id
    THEN CHOOSE k \in 1..Len(pending) : pending[k].id = id
    ELSE 0

\* session p has fetched its snapshot and has not yet validated anything
JustFetched(p) == batch[p].active /\ pc[p] = "batch_loop" /\ batch[p].i = 1

\* C24: the results of validate_all_pending are in the order of its snapshot,
\* and the snapshot is determined by the content of the stores: two fetches
\* of the same content hold the same list.
C24_BatchOrderDeterministic ==
    /\ \A p \in Procs : BatchReturned(p) =>
          \A k, l \in 1..Len(batchRet[p].results) :
              k < l => PlaceIn(batchRet[p].pending, batchRet[p].results[k].pdf_extraction_id)
                         < PlaceIn(batchRet[p].pending, batchRet[p].results[l].pdf_extraction_id)
    /\ \A p, q \in Procs :
          (JustFetched(p) /\ JustFetched(q)) => batch[p].pending = batch[q].pending

(* ---------------------------- C25 ---------------------------------------- *)
\* C25: when validate_all_pending has returned, no extraction with a result
\* in the returned list has status extracted any more, so the next batch does
\* not fetch it again.
C25_ListedLeavePending ==
    \A p \in Procs :
        BatchReturned(p) =>
            \A k \in 1..Len(batchRet[p].results) :
                pdf_extractions[batchRet[p].results[k].pdf_extraction_id].status
                    # "extracted"

(* ---------------------------- C26 ---------------------------------------- *)
\* C26: an extraction whose status is validated keeps that status through
\* every later step of validate_extraction and validate_all_pending, whichever
\* session takes it and however old the object it holds.
C26_ValidatedIsKept ==
    [][\A e \in DOMAIN pdf_extractions :
          pdf_extractions[e].status = "validated" =>
              pdf_extractions'[e].status = "validated"]_vars

\* an extraction that two calls have found valid, each holding the object as
\* it was before the other wrote: both results are stored and the second
\* status write found the status validated already
C26_Witness ==
    \E e \in DOMAIN pdf_extractions :
        /\ pdf_extractions[e].status = "validated"
        /\ \E k, l \in 1..Len(validation_results) :
              /\ k < l
              /\ validation_results[k].pdf_extraction_id = e
              /\ validation_results[l].pdf_extraction_id = e
              /\ validation_results[k].is_valid
              /\ validation_results[l].is_valid
        /\ \A p \in Procs : Returned(p) /\ ret[p].extraction.id = e
                            /\ ret[p].extraction.status = "extracted"

(* ---------------------------- C27 ---------------------------------------- *)
\* the three ways of saying that a result is good agree
Coherent(result) ==
    /\ result.is_valid <=> result.status = "valid"
    /\ result.is_valid <=> Len(result.validation_errors) = 0

\* C27: in every ValidationResult that validate_extraction builds, stores or
\* returns, is_valid is true exactly when status is valid and exactly when
\* validation_errors is empty.
C27_ResultIsCoherent ==
    /\ \A k \in 1..Len(validation_results) : Coherent(validation_results[k])
    /\ \A p \in Procs :
          /\ Returned(p) => Coherent(ret[p].result)
          /\ (call[p].active /\ call[p].result # None) => Coherent(call[p].result[1])
          /\ BatchReturned(p) =>
                \A k \in 1..Len(batchRet[p].results) : Coherent(batchRet[p].results[k])

\* a stored valid result, a stored invalid result with an amount error, and
\* a returned already_validated result
C27_Witness ==
    /\ \E k \in 1..Len(validation_results) : validation_results[k].is_valid
    /\ \E k \in 1..Len(validation_results) :
          /\ ~validation_results[k].is_valid
          /\ validation_results[k].validation_errors[1].field = "valor"
    /\ \E p \in Procs : Returned(p) /\ ret[p].result.status = "already_validated"

(* ---------------------------- C28 ---------------------------------------- *)
\* C28: a transaction that fails leaves the store as it was before execute:
\* when create_control raises, validation_control is what it was before the
\* call.
C28_FailedTransactionUndone ==
    [][\A p \in Procs :
          (pc[p] = "create_control" /\ pc'[p] # "create_control"
             /\ ret'[p].kind = "raised") =>
              validation_control' = validation_control]_vars

(* ---------------------------- C29 ---------------------------------------- *)
\* C29: one call of create() adds at most one row to its table, whatever
\* attempts of insert_record fail or succeed.
C29_CreateAddsAtMostOneRow ==
    [][/\ Len(validation_results') <= Len(validation_results) + 1
       /\ Len(validation_control') <= Len(validation_control) + 1]_vars

(* ---------------------------- C30 ---------------------------------------- *)
\* the rows that the upload in progress has added to pdf_extractions
UploadedRows == (doc.before + 1)..Len(pdf_extractions)

\* C30: once a node of the graph has recorded an error, no later node
\* changes the state, process_document raises and handle_upload stores no
\* extraction; a row is stored only when no node recorded an error, and it has
\* status extracted.
C30_ErrorStopsUpload ==
    doc.node # "none" =>
        /\ doc.late = {}
        /\ (doc.node = "done" /\ doc.recorded # {}) => doc.outcome = "raised"
        /\ doc.recorded # {} => UploadedRows = {}
        /\ \A k \in UploadedRows : pdf_extractions[k].status = "extracted"

TypeOK ==
    /\ \A p \in Procs : pc[p] \in {"idle", "get_control", "create_result", "create_control",
                                   "update_validated", "update_failed", "batch_loop"}
    /\ \A e \in DOMAIN pdf_extractions : pdf_extractions[e].status \in Status
    /\ history.kind \in {"none", "read"}
    /\ clock \in 0..(MaxOps * NumExt)

====
